---- MODULE Spec2Model ----
(***************************************************************************)
(* Model of the MCP client: main (client.py), MCPClient.chat_loop,         *)
(* MCPClient.process_query, MCPClient.call_tool and the scoped connection  *)
(* MCPServerConnector (mcpserverconnector.py).                             *)
(*                                                                         *)
(* The program is single-threaded; pc is its position.  Every await and    *)
(* every blocking call (input, the chat model request, the tool call, the  *)
(* connection set-up and tear-down steps) is a point where the environment *)
(* chooses the outcome: a value, an ordinary Exception, or a               *)
(* BaseException (KeyboardInterrupt / asyncio.CancelledError).             *)
(***************************************************************************)
EXTENDS Integers, Sequences, FiniteSets, TLC

\* Bounds of the exploration.
MaxQueries == 2      \* input lines read by chat_loop in one run
MaxToolCalls == 2    \* tool calls the model may request within one query
MaxArgItems == 2     \* items of a structured tool argument value

(***************************************************************************)
(* Python values.  A text is a sequence of tokens; a dict is a sequence of *)
(* items <<key, tag, text>> (insertion ordered) whose tag is "str", "num"  *)
(* or "obj" (a value json cannot serialize).                               *)
(***************************************************************************)
PyNone == [type |-> "none", text |-> <<>>, items |-> <<>>]
PyStr(toks) == [type |-> "str", text |-> toks, items |-> <<>>]
PyNum(tok) == [type |-> "num", text |-> <<tok>>, items |-> <<>>]
PyDict(items) == [type |-> "dict", text |-> <<>>, items |-> items]
\* an object with a model_dump() method returning the dict of its items
PyModel(items) == [type |-> "model", text |-> <<>>, items |-> items]
\* a list of content items, as MCP tool results carry
PyList(items) == [type |-> "list", text |-> <<>>, items |-> items]

Numbers == {"21", "7"}
Punct == {"{", "}", ":", ",", "\""}

\* dict assignment d[k] = v: replaces the value of an existing key in place
RECURSIVE DictPut(_, _, _)
DictPut(items, key, atom) ==
    IF items = <<>> THEN << <<key, atom[1], atom[2]>> >>
    ELSE IF Head(items)[1] = key
         THEN << <<key, atom[1], atom[2]>> >> \o Tail(items)
         ELSE <<Head(items)>> \o DictPut(Tail(items), key, atom)

\* json.dumps of one scalar
DumpAtom(tag, text) ==
    IF tag = "str" THEN <<"\"", text, "\"">> ELSE <<text>>

RECURSIVE DumpItems(_)
DumpItems(items) ==
    IF items = <<>> THEN <<>>
    ELSE <<"\"", Head(items)[1], "\"", ":">>
         \o DumpAtom(Head(items)[2], Head(items)[3])
         \o (IF Tail(items) = <<>> THEN <<>> ELSE <<",">> \o DumpItems(Tail(items)))

Serializable(items) == \A i \in 1..Len(items) : items[i][2] \in {"str", "num"}

\* json.dumps(content, ensure_ascii=False) of a dict: raises TypeError on a
\* value that is not JSON serializable
json_dumps(v) ==
    IF Serializable(v.items)
    THEN [ok |-> TRUE, val |-> PyStr(<<"{">> \o DumpItems(v.items) \o <<"}">>), exc |-> "none"]
    ELSE [ok |-> FALSE, val |-> PyNone, exc |-> "TypeError"]

\* one JSON scalar starting at position i: <<ok, tag, text, next position>>
ParseAtom(toks, i) ==
    IF i > Len(toks) THEN <<FALSE, "", "", i>>
    ELSE IF toks[i] = "\""
         THEN IF i + 2 <= Len(toks) /\ toks[i + 2] = "\"" /\ toks[i + 1] \notin Punct
              THEN <<TRUE, "str", toks[i + 1], i + 3>>
              ELSE <<FALSE, "", "", i>>
         ELSE IF toks[i] \in Numbers
              THEN <<TRUE, "num", toks[i], i + 1>>
              ELSE <<FALSE, "", "", i>>

\* the members of a JSON object starting at position i, up to the closing brace
RECURSIVE ParseMembers(_, _, _)
ParseMembers(toks, i, acc) ==
    LET k == ParseAtom(toks, i) IN
    IF ~k[1] \/ k[2] # "str" \/ k[4] > Len(toks) \/ toks[k[4]] # ":"
    THEN [ok |-> FALSE, val |-> PyNone, exc |-> "JSONDecodeError"]
    ELSE LET v == ParseAtom(toks, k[4] + 1)
             n == v[4]
             d == DictPut(acc, k[3], <<v[2], v[3]>>)
         IN IF ~v[1] \/ n > Len(toks)
            THEN [ok |-> FALSE, val |-> PyNone, exc |-> "JSONDecodeError"]
            ELSE IF toks[n] = "}" /\ n = Len(toks)
                 THEN [ok |-> TRUE, val |-> PyDict(d), exc |-> "none"]
                 ELSE IF toks[n] = ","
                      THEN ParseMembers(toks, n + 1, d)
                      ELSE [ok |-> FALSE, val |-> PyNone, exc |-> "JSONDecodeError"]

\* json.loads(arguments): raises JSONDecodeError on a malformed text
json_loads(toks) ==
    IF toks = <<>> THEN [ok |-> FALSE, val |-> PyNone, exc |-> "JSONDecodeError"]
    ELSE IF toks[1] = "{"
         THEN IF toks = <<"{", "}">>
              THEN [ok |-> TRUE, val |-> PyDict(<<>>), exc |-> "none"]
              ELSE ParseMembers(toks, 2, <<>>)
         ELSE LET a == ParseAtom(toks, 1) IN
              IF a[1] /\ a[4] = Len(toks) + 1
              THEN [ok |-> TRUE,
                    val |-> IF a[2] = "str" THEN PyStr(<<a[3]>>) ELSE PyNum(a[3]),
                    exc |-> "none"]
              ELSE [ok |-> FALSE, val |-> PyNone, exc |-> "JSONDecodeError"]

\* repr of the items of a list of content items
RECURSIVE ReprItems(_)
ReprItems(items) ==
    IF items = <<>> THEN <<>>
    ELSE <<Head(items)[1], "(", "text=", "'", Head(items)[3], "'", ")">>
         \o (IF Tail(items) = <<>> THEN <<>> ELSE <<",">> \o ReprItems(Tail(items)))

\* str(content) of a value that is neither a str nor a dict
PyStrOf(v) ==
    CASE v.type = "none" -> PyStr(<<"None">>)
      [] v.type = "num" -> PyStr(v.text)
      [] v.type = "list" -> PyStr(<<"[">> \o ReprItems(v.items) \o <<"]">>)
      [] OTHER -> PyStr(<<"<object>">>)


(***************************************************************************)
(* Text operations of chat_loop: str.strip() and str.lower() over lines    *)
(* that are sequences of characters.                                       *)
(***************************************************************************)
Whitespace == {" ", "\t"}

RECURSIVE LStrip(_)
LStrip(s) == IF s # <<>> /\ Head(s) \in Whitespace THEN LStrip(Tail(s)) ELSE s

RECURSIVE RStrip(_)
RStrip(s) ==
    IF s # <<>> /\ s[Len(s)] \in Whitespace THEN RStrip(SubSeq(s, 1, Len(s) - 1)) ELSE s

Strip(s) == RStrip(LStrip(s))

LowerChar(c) ==
    CASE c = "Q" -> "q" [] c = "U" -> "u" [] c = "I" -> "i" [] c = "T" -> "t"
      [] c = "H" -> "h" [] OTHER -> c

\* a comparison of the query as typed
Lower_AsTyped(s) == s

\* str.lower()
Lower(s) == [i \in 1..Len(s) |-> LowerChar(s[i])]

QuitSentinel == <<"q", "u", "i", "t">>

(***************************************************************************)
(* Exceptions.  An ordinary Exception is caught by "except Exception"; a   *)
(* BaseException (KeyboardInterrupt, CancelledError) is not.               *)
(***************************************************************************)
Interrupts == {"KeyboardInterrupt", "CancelledError"}
IsInterrupt(e) == e \in Interrupts
\* a handler written "except BaseException"
IsException_Base(e) == e # "none"
IsException(e) == e # "none" /\ e \notin Interrupts

(***************************************************************************)
(* The values the environment supplies.                                    *)
(***************************************************************************)
InputLines ==
    { <<"q", "u", "i", "t">>,
      <<" ", "Q", "u", "I", "T", " ">>,
      <<"h", "i">>,
      <<"q", "u", "i", "t", "s">> }

ToolCatalog == {"maps_weather"}

CityItems == << <<"city", "str", "Beijing">> >>
ValidJson == <<"{", "\"", "city", "\"", ":", "\"", "Beijing", "\"", "}">>
TruncatedJson == <<"{", "\"", "city", "\"", ":">>

\* tool_call.function.arguments as the chat model may send it
ArgInputs == { PyStr(ValidJson), PyStr(TruncatedJson), PyDict(CityItems), PyModel(CityItems) }

WeatherItems == << <<"temperature", "num", "21">> >>
BytesItems == << <<"raw", "obj", "<bytes>">> >>

\* tool_result.content as the tool server session may return it
ToolContents ==
    { PyStr(<<"sunny">>),
      PyDict(WeatherItems),
      PyList(<< <<"TextContent", "str", "sunny">> >>),
      PyModel(WeatherItems),
      PyDict(BytesItems) }

FinalContents == { PyStr(<<"It's 21C and clear in Beijing.">>), PyNone }

CallId(round, index) == [round |-> round, index |-> index]

\* a response message of the chat model that requests k tool calls
ToolCallMessages(round, k) ==
    { [content |-> PyNone,
       tool_calls |-> [i \in 1..k |->
                          [id |-> CallId(round, i),
                           function |-> [name |-> "maps_weather", arguments |-> args[i]]]]]
      : args \in [1..k -> ArgInputs] }

FinalMessages == { [content |-> c, tool_calls |-> <<>>] : c \in FinalContents }

(***************************************************************************)
(* Program state.                                                          *)
(***************************************************************************)
VARIABLES
    pc,             \* position of the single thread of control
    exc,            \* the exception being propagated, or "none"
    deepseekClient, \* MCPClient.deepseekClient: "none" | "ready"
    connector,      \* MCPClient.connector: "none"; "new": a connector that was
                    \* constructed and not entered; "set": the entered connector
    sse,            \* the SSE connection (_sse_cm): "none", "open" (entered),
                    \* "closed" (its __aexit__ has run)
    session,        \* the ClientSession (_session_cm): "none", "open", "closed"
    setup,          \* the set-up steps that have completed
    tools,          \* MCPServerConnector.tools (names)
    messages,       \* process_query's messages list
    request,        \* what the last model request carried
    message,        \* response.choices[0].message of the last response
    toolIdx,        \* index of the tool call being processed in message.tool_calls
    tool_args,      \* the normalized arguments handed to call_tool
    tool_result,    \* tool_result.content as call_tool returned it last
    outstanding,    \* the requests sent and not yet answered
    result,         \* the value process_query returned
    fault,          \* what the last model or tool call raised, if it raised
    toolRounds,     \* assistant turns with tool calls in this query
    modelRequests,  \* model requests issued in this query
    toolInvocations,\* tool invocations issued in this query
    prompts,        \* input prompts shown by chat_loop
    lastLine,       \* what input() returned last (<<>> when it raised)
    lastReport,     \* the exception chat_loop reported since the last prompt, or "none"
    mainResult      \* "running"; "returned": main returned; "interrupted": main
                    \* returned through its except clause; "raised": main raised

vars == << pc, exc, deepseekClient, connector, sse, session, setup, tools, messages,
           request, message, toolIdx, tool_args, tool_result, outstanding, result,
           fault, toolRounds, modelRequests, toolInvocations, prompts, lastLine,
           lastReport, mainResult >>

NoResult == [type |-> "unset", text |-> <<>>, items |-> <<>>]
NoMessage == [content |-> NoResult, tool_calls |-> <<>>]
NoRequest == [messages |-> <<>>, tools |-> {}]
NoFault == [src |-> "none", exc |-> "none"]

connVars == << deepseekClient, connector, sse, session, setup, tools >>
queryVars == << messages, request, message, toolIdx, tool_args, tool_result,
                outstanding, result, fault, toolRounds, modelRequests, toolInvocations >>

Init ==
    /\ pc = "main_start"
    /\ exc = "none"
    /\ deepseekClient = "none"
    /\ connector = "none"
    /\ sse = "none"
    /\ session = "none"
    /\ setup = {}
    /\ tools = {}
    /\ messages = <<>>
    /\ request = NoRequest
    /\ message = NoMessage
    /\ toolIdx = 0
    /\ tool_args = PyNone
    /\ tool_result = NoResult
    /\ outstanding = {}
    /\ result = NoResult
    /\ fault = NoFault
    /\ toolRounds = 0
    /\ modelRequests = 0
    /\ toolInvocations = 0
    /\ prompts = 0
    /\ lastLine = <<>>
    /\ lastReport = "none"
    /\ mainResult = "running"


(***************************************************************************)
(* Helpers of process_query and call_tool.                                 *)
(***************************************************************************)
Ok(v) == [ok |-> TRUE, val |-> v, exc |-> "none"]
Raised(e) == [ok |-> FALSE, val |-> PyNone, exc |-> e]

\* build_tools_for_deepseek: one function declaration per catalog tool
build_tools_for_deepseek(catalog) ==
    { [type |-> "function", function |-> [name |-> t]] : t \in catalog }

UserMessage(query) == [role |-> "user", content |-> PyStr(query)]

\* the assistant message with its tool_calls (each tc.model_dump())
AssistantMessage(m) ==
    [role |-> "assistant", content |-> m.content, tool_calls |-> m.tool_calls]

\* the tool result message of one tool call
ToolMessage(tool_call, content) ==
    [role |-> "tool", tool_call_id |-> tool_call.id, content |-> content]

\* a normalization that hands a str through as it came
NormalizeArguments_Raw(arguments) ==
    IF arguments.type = "model" THEN Ok(PyDict(arguments.items)) ELSE Ok(arguments)

\* normalization of tool_call.function.arguments
NormalizeArguments(arguments) ==
    IF arguments.type = "model" THEN Ok(PyDict(arguments.items))
    ELSE IF arguments.type = "str" THEN json_loads(arguments.text)
    ELSE Ok(arguments)

\* normalization of tool_result.content to a string
NormalizeContent(content) ==
    LET c == IF content.type = "model" THEN PyDict(content.items)
             ELSE IF content.type \notin {"str", "dict"} THEN PyStrOf(content)
             ELSE content
    IN IF c.type # "str" THEN json_dumps(c) ELSE Ok(c)

\* what the tool server session does with one call
ToolOutcomes ==
    { [kind |-> "return", content |-> c, exc |-> "none"] : c \in ToolContents }
    \cup { [kind |-> "raise", content |-> PyNone, exc |-> e] : e \in {"ValidationError", "CancelledError"} }

\* the pseudo tool result call_tool builds from an exception
FaultContent(e) == PyStr(<<"[tool call exception]", e>>)

\* call_tool without its except clause
call_tool_Reraise(outcome) ==
    IF outcome.kind = "return" THEN Ok(outcome.content) ELSE Raised(outcome.exc)

\* call_tool's try/except around session.call_tool: the content of the result
call_tool(outcome) ==
    IF outcome.kind = "return" THEN Ok(outcome.content)
    ELSE IF IsException(outcome.exc) THEN Ok(FaultContent(outcome.exc))
    ELSE Raised(outcome.exc)

\* a join that puts the separator before every element
JoinFinalText_Sep(content) ==
    IF content.type = "str" THEN Ok(PyStr(<<"\n">> \o content.text)) ELSE Raised("TypeError")

\* "\n".join(final_text) of the one collected message.content
JoinFinalText(content) ==
    IF content.type = "str" THEN Ok(content) ELSE Raised("TypeError")

RECURSIVE RequestedCalls(_)
RequestedCalls(msgs) ==
    IF msgs = <<>> THEN 0
    ELSE (IF Head(msgs).role = "assistant" THEN Len(Head(msgs).tool_calls) ELSE 0)
         + RequestedCalls(Tail(msgs))

\* the responses the chat model may give to the current request
ModelMessages ==
    FinalMessages
    \cup UNION { ToolCallMessages(toolRounds + 1, k)
                 : k \in 1..(MaxToolCalls - RequestedCalls(messages)) }

(***************************************************************************)
(* main and MCPServerConnector.__aenter__                                  *)
(***************************************************************************)
\* a set-up step whose exception is swallowed
SetupFails_Continues(e) ==
    /\ exc' = e
    /\ pc' = "chat_input"

\* an exception leaves the try block of main without entering the scope
SetupFails(e) ==
    /\ exc' = e
    /\ pc' = "main_exit"

\* client = MCPClient()
ClientInit ==
    /\ pc = "main_start"
    /\ \E api_key \in {"", "sk-key"} :
         IF api_key = ""
         THEN /\ exc' = "RuntimeError"
              /\ pc' = "done"
              /\ mainResult' = "raised"
              /\ UNCHANGED << deepseekClient, setup >>
         ELSE /\ deepseekClient' = "ready"
              /\ setup' = setup \cup {"api_key"}
              /\ pc' = "aenter_config"
              /\ UNCHANGED << exc, mainResult >>
    /\ UNCHANGED << connector, sse, session, tools, prompts, lastLine, lastReport >>
    /\ UNCHANGED queryVars

\* open('mcp.json'), json.load, config[...]["url"]
AenterConfig ==
    /\ pc = "aenter_config"
    /\ \E outcome \in {"ok", "FileNotFoundError", "KeyError"} :
         IF outcome = "ok"
         THEN /\ setup' = setup \cup {"config"}
              /\ pc' = "aenter_sse"
              /\ UNCHANGED exc
         ELSE /\ SetupFails(outcome)
              /\ UNCHANGED setup
    /\ UNCHANGED << deepseekClient, connector, sse, session, tools, prompts, lastLine, lastReport,
                    mainResult >>
    /\ UNCHANGED queryVars

\* self._sse_streams = await self._sse_cm.__aenter__()
AenterSse ==
    /\ pc = "aenter_sse"
    /\ \E outcome \in {"ok", "ConnectError", "CancelledError"} :
         IF outcome = "ok"
         THEN /\ sse' = "open"
              /\ setup' = setup \cup {"sse"}
              /\ pc' = "aenter_session"
              /\ UNCHANGED exc
         ELSE /\ SetupFails(outcome)
              /\ UNCHANGED << sse, setup >>
    /\ UNCHANGED << deepseekClient, connector, session, tools, prompts, lastLine, lastReport,
                    mainResult >>
    /\ UNCHANGED queryVars

\* self.session = await self._session_cm.__aenter__()
AenterSession ==
    /\ pc = "aenter_session"
    /\ \E outcome \in {"ok", "RuntimeError", "CancelledError"} :
         IF outcome = "ok"
         THEN /\ session' = "open"
              /\ setup' = setup \cup {"session"}
              /\ pc' = "aenter_initialize"
              /\ UNCHANGED exc
         ELSE /\ SetupFails(outcome)
              /\ UNCHANGED << session, setup >>
    /\ UNCHANGED << deepseekClient, connector, sse, tools, prompts, lastLine, lastReport, mainResult >>
    /\ UNCHANGED queryVars

\* await self.session.initialize()
AenterInitialize ==
    /\ pc = "aenter_initialize"
    /\ \E outcome \in {"ok", "McpError", "CancelledError"} :
         IF outcome = "ok"
         THEN /\ setup' = setup \cup {"initialize"}
              /\ pc' = "aenter_list_tools"
              /\ UNCHANGED exc
         ELSE /\ SetupFails(outcome)
              /\ UNCHANGED setup
    /\ UNCHANGED << deepseekClient, connector, sse, session, tools, prompts, lastLine, lastReport,
                    mainResult >>
    /\ UNCHANGED queryVars

\* response = await self.session.list_tools(); return self;
\* client.connector = connector; chat_loop starts
AenterListTools ==
    /\ pc = "aenter_list_tools"
    /\ \E outcome \in {"ok", "McpError", "CancelledError"} :
         IF outcome = "ok"
         THEN /\ tools' = ToolCatalog
              /\ setup' = setup \cup {"list_tools"}
              /\ connector' = "set"
              /\ pc' = "chat_input"
              /\ UNCHANGED exc
         ELSE /\ SetupFails(outcome)
              /\ UNCHANGED << tools, setup, connector >>
    /\ UNCHANGED << deepseekClient, sse, session, prompts, lastLine, lastReport, mainResult >>
    /\ UNCHANGED queryVars


(***************************************************************************)
(* MCPClient.chat_loop and MCPClient.process_query                         *)
(***************************************************************************)
\* the locals of a process_query call that is not running
QueryIdle ==
    /\ messages' = <<>>
    /\ request' = NoRequest
    /\ message' = NoMessage
    /\ toolIdx' = 0
    /\ tool_args' = PyNone
    /\ tool_result' = NoResult
    /\ outstanding' = {}
    /\ result' = NoResult
    /\ fault' = NoFault
    /\ toolRounds' = 0
    /\ modelRequests' = 0
    /\ toolInvocations' = 0

\* an exception raised inside the try body of chat_loop
RaiseInChat(e) ==
    /\ exc' = e
    /\ pc' = "chat_raised"

\* an input() call placed before the try statement
InputRaises_Outside(e) ==
    /\ exc' = e
    /\ pc' = "aexit_session"

\* input() is the first statement inside the try of chat_loop
InputRaises(e) == RaiseInChat(e)

\* a conversation kept across queries: the earlier query stays in front
NewConversation_Kept(earlier, query) ==
    IF earlier = <<>> THEN << UserMessage(query) >>
    ELSE << UserMessage(Strip(earlier)), UserMessage(query) >>

\* messages = [{"role": "user", "content": query}]: a fresh list per call,
\* whatever was read before
NewConversation(earlier, query) == << UserMessage(query) >>

\* messages.insert(0, turn)
AppendTurn_Front(msgs, turn) == <<turn>> \o msgs

\* messages.append(turn)
AppendTurn(msgs, turn) == Append(msgs, turn)

\* the request to the chat model among the outstanding requests: it has no
\* call id, and counts as index 0 of the round it opens
ModelCall == CallId(0, 0)

\* a request that is sent
Sent(pending, req) == pending \cup {req}

\* a call that is started and not awaited
Answered_NotAwaited(pending, req) == pending

\* the call is awaited: process_query goes on only when its answer is there
Answered(pending, req) == pending \ {req}

\* query = input("\nQuery: ").strip(); the quit test; process_query's first lines
ChatInput ==
    /\ pc = "chat_input"
    /\ prompts' = prompts + 1
    /\ lastReport' = "none"
    /\ \/ \E line \in InputLines :
            LET query == Strip(line) IN
            /\ lastLine' = line
            /\ IF Lower(query) = QuitSentinel
               THEN /\ pc' = "aexit_session"
                    /\ UNCHANGED exc
                    /\ UNCHANGED queryVars
               ELSE /\ prompts < MaxQueries
                    /\ messages' = NewConversation(lastLine, query)
                    /\ IF connector = "none"
                       THEN RaiseInChat("AttributeError")
                       ELSE /\ pc' = "pq_request"
                            /\ UNCHANGED exc
                    /\ UNCHANGED << request, message, toolIdx, tool_args, tool_result,
                                    outstanding, result, fault, toolRounds,
                                    modelRequests, toolInvocations >>
       \/ /\ prompts < MaxQueries
          /\ lastLine' = <<>>
          /\ InputRaises("EOFError")
          /\ UNCHANGED queryVars
       \/ /\ lastLine' = <<>>
          /\ InputRaises("KeyboardInterrupt")
          /\ UNCHANGED queryVars
    /\ UNCHANGED connVars
    /\ UNCHANGED mainResult

\* self.deepseekClient.chat.completions.create(model, messages, tools): the call
ModelSend ==
    /\ pc = "pq_request"
    /\ request' = [messages |-> messages, tools |-> build_tools_for_deepseek(tools)]
    /\ modelRequests' = modelRequests + 1
    /\ outstanding' = Sent(outstanding, ModelCall)
    /\ pc' = "await_model"
    /\ UNCHANGED << exc, messages, message, toolIdx, tool_args, tool_result, result,
                    fault, toolRounds, toolInvocations, prompts, lastLine, lastReport,
                    mainResult >>
    /\ UNCHANGED connVars

\* a model request wrapped in a try that returns what was collected so far
ModelRaises_Swallowed(e) ==
    /\ pc' = "pq_returned"
    /\ UNCHANGED exc

\* create() is inside no try block of process_query: its exception leaves it
ModelRaises(e) == RaiseInChat(e)

\* the response (or the exception) of the chat model, and the loop body up to
\* the first tool call or the return
ModelReceive ==
    /\ pc = "await_model"
    /\ outstanding' = Answered(outstanding, ModelCall)
    /\ \/ \E e \in {"APIError", "KeyboardInterrupt"} :
            /\ fault' = [src |-> "model", exc |-> e]
            /\ ModelRaises(e)
            /\ UNCHANGED << messages, message, toolIdx, result, toolRounds >>
       \/ \E m \in ModelMessages :
            /\ message' = m
            /\ fault' = NoFault
            /\ IF m.tool_calls = <<>>
               THEN LET joined == JoinFinalText(m.content) IN
                    /\ IF joined.ok
                       THEN /\ result' = joined.val
                            /\ pc' = "pq_returned"
                            /\ UNCHANGED exc
                       ELSE /\ RaiseInChat(joined.exc)
                            /\ UNCHANGED result
                    /\ UNCHANGED << messages, toolIdx, toolRounds >>
               ELSE /\ messages' = AppendTurn(messages, AssistantMessage(m))
                    /\ toolIdx' = 1
                    /\ toolRounds' = toolRounds + 1
                    /\ pc' = "pq_tool"
                    /\ UNCHANGED << exc, result >>
    /\ UNCHANGED << request, tool_args, tool_result, modelRequests, toolInvocations,
                    prompts, lastLine, lastReport, mainResult >>
    /\ UNCHANGED connVars

\* one iteration of "for tool_call in message.tool_calls" up to the await in
\* call_tool: argument normalization, the session check, the dispatch
ToolDispatch ==
    /\ pc = "pq_tool"
    /\ LET tool_call == message.tool_calls[toolIdx]
           args == NormalizeArguments(tool_call.function.arguments)
       IN IF ~args.ok
          THEN /\ RaiseInChat(args.exc)
               /\ UNCHANGED << tool_args, toolInvocations, outstanding >>
          ELSE IF connector = "none" \/ session = "none"
               THEN /\ RaiseInChat("RuntimeError")
                    /\ UNCHANGED << tool_args, toolInvocations, outstanding >>
               ELSE /\ tool_args' = args.val
                    /\ toolInvocations' = toolInvocations + 1
                    /\ outstanding' = Sent(outstanding, tool_call.id)
                    /\ pc' = "await_tool"
                    /\ UNCHANGED exc
    /\ UNCHANGED << messages, request, message, toolIdx, tool_result, result, fault,
                    toolRounds, modelRequests, prompts, lastLine, lastReport,
                    mainResult >>
    /\ UNCHANGED connVars

\* a loop that requests the model again after each single tool call
AfterToolCall_Early ==
    /\ toolIdx' = 0
    /\ pc' = "pq_request"

\* after the last tool call of the turn the loop requests the model again
AfterToolCall ==
    IF toolIdx < Len(message.tool_calls)
    THEN /\ toolIdx' = toolIdx + 1
         /\ pc' = "pq_tool"
    ELSE /\ toolIdx' = 0
         /\ pc' = "pq_request"

\* the outcome of session.call_tool, call_tool's except clause, the result
\* normalization and the append of the tool message
ToolReturn ==
    /\ pc = "await_tool"
    /\ \E outcome \in ToolOutcomes :
         LET tool_call == message.tool_calls[toolIdx]
             returned == call_tool(outcome)
             content == NormalizeContent(returned.val)
         IN /\ fault' = IF outcome.kind = "raise"
                       THEN [src |-> "tool", exc |-> outcome.exc]
                       ELSE NoFault
            /\ outstanding' = Answered(outstanding, tool_call.id)
            /\ IF ~returned.ok
               THEN /\ RaiseInChat(returned.exc)
                    /\ UNCHANGED << messages, toolIdx, tool_result >>
               ELSE /\ tool_result' = returned.val
                    /\ IF ~content.ok
                       THEN /\ RaiseInChat(content.exc)
                            /\ UNCHANGED << messages, toolIdx >>
                       ELSE /\ messages' = AppendTurn(messages,
                                                      ToolMessage(tool_call, content.val))
                            /\ AfterToolCall
                            /\ UNCHANGED exc
    /\ UNCHANGED << request, message, tool_args, result, toolRounds, modelRequests,
                    toolInvocations, prompts, lastLine, lastReport, mainResult >>
    /\ UNCHANGED connVars

\* print("\n" + response): process_query has returned
PrintResponse ==
    /\ pc = "pq_returned"
    /\ pc' = "chat_input"
    /\ QueryIdle
    /\ UNCHANGED << exc, prompts, lastLine, lastReport, mainResult >>
    /\ UNCHANGED connVars

\* a handler that reports the failure and leaves the loop
ChatCatch_Exits ==
    /\ pc = "chat_raised"
    /\ IsException(exc)
    /\ lastReport' = exc
    /\ exc' = "none"
    /\ pc' = "aexit_session"
    /\ QueryIdle
    /\ UNCHANGED << prompts, lastLine, mainResult >>
    /\ UNCHANGED connVars

\* except Exception as e: the failure is reported and the loop goes on
ChatCatch ==
    /\ pc = "chat_raised"
    /\ IsException(exc)
    /\ lastReport' = exc
    /\ exc' = "none"
    /\ pc' = "chat_input"
    /\ QueryIdle
    /\ UNCHANGED << prompts, lastLine, mainResult >>
    /\ UNCHANGED connVars

\* a BaseException passes the except clause and leaves chat_loop
ChatPropagate ==
    /\ pc = "chat_raised"
    /\ IsInterrupt(exc)
    /\ pc' = "aexit_session"
    /\ QueryIdle
    /\ UNCHANGED << exc, prompts, lastLine, lastReport, mainResult >>
    /\ UNCHANGED connVars

(***************************************************************************)
(* MCPServerConnector.__aexit__ and the end of main                        *)
(***************************************************************************)
\* if self._session_cm: await self._session_cm.__aexit__(exc_type, exc, tb)
AexitSession ==
    /\ pc = "aexit_session"
    /\ session' = "closed"
    /\ \E outcome \in {"ok", "CloseError"} :
         IF outcome = "ok"
         THEN /\ pc' = "aexit_sse"
              /\ UNCHANGED exc
         ELSE /\ exc' = outcome
              /\ pc' = "main_exit"
    /\ UNCHANGED << deepseekClient, connector, sse, setup, tools, prompts, lastLine, lastReport,
                    mainResult >>
    /\ UNCHANGED queryVars

\* if self._sse_cm: await self._sse_cm.__aexit__(exc_type, exc, tb); __aexit__
\* returns None, so an exception of the body is raised again
AexitSse ==
    /\ pc = "aexit_sse"
    /\ sse' = "closed"
    /\ \E outcome \in {"ok", "CloseError"} :
         IF outcome = "ok" THEN UNCHANGED exc ELSE exc' = outcome
    /\ pc' = "main_exit"
    /\ UNCHANGED << deepseekClient, connector, session, setup, tools, prompts, lastLine, lastReport,
                    mainResult >>
    /\ UNCHANGED queryVars

\* except (KeyboardInterrupt, asyncio.CancelledError) ... finally ...
MainExit ==
    /\ pc = "main_exit"
    /\ IF IsException(exc)
       THEN /\ mainResult' = "raised"
            /\ UNCHANGED exc
       ELSE /\ mainResult' = IF IsInterrupt(exc) THEN "interrupted" ELSE "returned"
            /\ exc' = "none"
    /\ pc' = "done"
    /\ UNCHANGED << prompts, lastLine, lastReport >>
    /\ UNCHANGED connVars
    /\ UNCHANGED queryVars

Next ==
    \/ ClientInit
    \/ AenterConfig
    \/ AenterSse
    \/ AenterSession
    \/ AenterInitialize
    \/ AenterListTools
    \/ ChatInput
    \/ ModelSend
    \/ ModelReceive
    \/ ToolDispatch
    \/ ToolReturn
    \/ PrintResponse
    \/ ChatCatch
    \/ ChatPropagate
    \/ AexitSession
    \/ AexitSse
    \/ MainExit

Spec == Init /\ [][Next]_vars

TypeOK ==
    /\ pc \in {"main_start", "aenter_config", "aenter_sse", "aenter_session",
               "aenter_initialize", "aenter_list_tools", "chat_input", "pq_request",
               "await_model", "pq_tool", "await_tool", "pq_returned", "chat_raised",
               "aexit_session", "aexit_sse", "main_exit", "done"}
    /\ sse \in {"none", "open", "closed"}
    /\ session \in {"none", "open", "closed"}
    /\ mainResult \in {"running", "returned", "interrupted", "raised"}
    /\ prompts \in 0..(MaxQueries + 1)
    /\ connector \in {"none", "new", "set"}
    /\ outstanding \subseteq ({ModelCall} \cup { message.tool_calls[i].id : i \in DOMAIN message.tool_calls })
    /\ lastLine \in InputLines \cup {<<>>}
    /\ tool_result \in ToolContents \cup {NoResult, FaultContent("ValidationError")}


(***************************************************************************)
(* Properties                                                              *)
(***************************************************************************)
Roles(msgs) == [i \in 1..Len(msgs) |-> msgs[i].role]

\* the assistant turn at position p is followed by exactly one tool turn per
\* requested call, in request order, each carrying the id of its call
ResultsFollow(msgs, p) ==
    LET calls == msgs[p].tool_calls IN
    /\ p + Len(calls) <= Len(msgs)
    /\ \A i \in 1..Len(calls) :
         /\ msgs[p + i].role = "tool"
         /\ msgs[p + i].tool_call_id = calls[i].id
    /\ (p + Len(calls) < Len(msgs) => msgs[p + Len(calls) + 1].role # "tool")

\* process_query is between tool rounds, or has ended by a return or an
\* ordinary exception
QuerySettled ==
    \/ pc \in {"pq_request", "await_model", "pq_returned"}
    \/ pc = "chat_raised" /\ IsException(exc)

\* C1: every assistant turn with N tool calls is directly followed by exactly N
\* tool-result turns, in request order, the i-th carrying the id of the i-th
\* call, whatever the model responses and tool outcomes were.
C1_ToolResultsComplete ==
    QuerySettled =>
        \A p \in 1..Len(messages) :
            messages[p].role = "assistant" => ResultsFollow(messages, p)

C3_ToolFaultRecovered ==
    /\ [][(pc = "await_tool" /\ fault'.src = "tool" /\ IsException(fault'.exc))
            => /\ exc' = "none"
               /\ messages' = Append(messages, messages'[Len(messages')])
               /\ LET turn == messages'[Len(messages')] IN
                    /\ turn.role = "tool"
                    /\ turn.tool_call_id = message.tool_calls[toolIdx].id
                    /\ turn.content.type = "str"
                    /\ \E i \in 1..Len(turn.content.text) :
                         turn.content.text[i] = fault'.exc
               /\ IF toolIdx < Len(message.tool_calls)
                  THEN pc' = "pq_tool" /\ toolIdx' = toolIdx + 1
                  ELSE pc' = "pq_request"]_vars
    /\ [][pc = "pq_request"
            => (pc' = "await_model" /\ modelRequests' = modelRequests + 1)]_vars

C3_Witness ==
    /\ pc = "await_model"
    /\ modelRequests = 2
    /\ fault.src = "tool"
    /\ IsException(fault.exc)
    /\ messages[Len(messages)].content = FaultContent(fault.exc)

\* C4: an exception raised while normalizing a tool call's arguments or its
\* result never leaves process_query.
C4_NormalizationContained ==
    ~(pc = "chat_raised" /\ toolIdx > 0 /\ exc \in {"JSONDecodeError", "TypeError"})

\* C5: an exception of the chat model client, at the first request or after a
\* tool round, leaves process_query: nothing is returned, and the query issues
\* no further model request or tool invocation.
C5_ModelErrorPropagates ==
    /\ [][(pc = "await_model" /\ fault'.src = "model")
            => /\ pc' = "chat_raised"
               /\ exc' = fault'.exc
               /\ result' = NoResult
               /\ messages' = messages
               /\ modelRequests' = modelRequests
               /\ toolInvocations' = toolInvocations]_vars
    /\ [][pc = "chat_raised"
            => /\ pc' \in {"chat_input", "aexit_session"}
               /\ result' = NoResult
               /\ modelRequests' = 0
               /\ toolInvocations' = 0]_vars

C5_Witness ==
    /\ pc = "chat_raised"
    /\ fault = [src |-> "model", exc |-> "APIError"]
    /\ exc = "APIError"
    /\ toolRounds = 1

\* C6: a query that fails with an exception is reported and chat_loop is back
\* at its prompt with the connection and the session still open; main is still
\* running.
C6_FailedQueryReported ==
    /\ [][(pc = "chat_raised" /\ IsException(exc))
            => /\ pc' = "chat_input"
               /\ lastReport' = exc
               /\ exc' = "none"
               /\ sse' = sse
               /\ session' = session
               /\ connector' = connector
               /\ mainResult' = "running"]_vars
    /\ [](pc = "chat_input" =>
            /\ sse = "open"
            /\ session = "open"
            /\ connector = "set"
            /\ mainResult = "running"
            /\ ENABLED ChatInput)

C6_Witness ==
    /\ pc = "chat_input"
    /\ lastReport = "APIError"
    /\ prompts < MaxQueries

\* C7: when main has finished, an SSE connection that was established has been
\* torn down.
C7_ConnectionTornDown ==
    pc = "done" => sse # "open"

AllSetup == {"api_key", "config", "sse", "session", "initialize", "list_tools"}
SetupPcs == {"main_start", "aenter_config", "aenter_sse", "aenter_session",
             "aenter_initialize", "aenter_list_tools"}

\* C9: chat_loop shows a prompt only after every set-up step succeeded; a
\* set-up step that fails raises out of main with no prompt shown.
C9_NoLoopWithoutSetup ==
    /\ []((prompts > 0 \/ pc \notin (SetupPcs \cup {"main_exit", "done"}))
            => /\ setup = AllSetup
               /\ deepseekClient = "ready"
               /\ connector = "set"
               /\ tools = ToolCatalog)
    /\ [][(pc \in SetupPcs /\ IsException(exc'))
            => (pc' \in {"main_exit", "done"} /\ prompts' = 0 /\ setup' = setup)]_vars
    /\ [][(pc = "main_exit" /\ IsException(exc)) => mainResult' = "raised"]_vars
    /\ []((pc = "done" /\ setup # AllSetup)
            => (prompts = 0 /\ mainResult \in {"raised", "interrupted"}))

C9_Witness ==
    /\ pc = "done"
    /\ mainResult = "raised"
    /\ setup = {"api_key", "config", "sse", "session"}
    /\ prompts = 0

\* C10: the tool rounds of one query stay below a maximum round count: however
\* many rounds the exploration allows, process_query stops before using them
\* all.
C10_RoundsBounded ==
    toolRounds < MaxToolCalls

(***************************************************************************)
(* Argument normalization on its own: one assistant turn that carries the  *)
(* same structured value in each form the chat model may send it in.       *)
(***************************************************************************)
ArgKeys == {"city", "days", "unit"}
ArgAtoms == { <<"str", "Beijing">>, <<"num", "7">>, <<"str", "7">> }
ArgItems == { <<k, a[1], a[2]>> : k \in ArgKeys, a \in ArgAtoms }

DistinctKeys(items) ==
    \A i, j \in 1..Len(items) : i # j => items[i][1] # items[j][1]

\* the structured argument values: dicts of at most MaxArgItems items
ArgValues ==
    { v \in UNION { [1..n -> ArgItems] : n \in 0..MaxArgItems } : DistinctKeys(v) }

\* tool_call.function.arguments carrying v as a JSON string, as a dict and as
\* an object with model_dump()
ArgForms(v) == << PyStr(json_dumps(PyDict(v)).val.text), PyDict(v), PyModel(v) >>

ArgsMessage(v) ==
    [content |-> PyNone,
     tool_calls |-> [i \in 1..3 |->
                        [id |-> CallId(1, i),
                         function |-> [name |-> "maps_weather",
                                       arguments |-> ArgForms(v)[i]]]]]

\* process_query at the head of its for loop over the tool calls of one turn
InitArgs ==
    /\ pc = "pq_tool"
    /\ exc = "none"
    /\ deepseekClient = "ready"
    /\ connector = "set"
    /\ sse = "open"
    /\ session = "open"
    /\ setup = {"api_key", "config", "sse", "session", "initialize", "list_tools"}
    /\ tools = ToolCatalog
    /\ \E v \in ArgValues :
         /\ message = ArgsMessage(v)
         /\ messages = << UserMessage(<<"h", "i">>), AssistantMessage(ArgsMessage(v)) >>
    /\ request = [messages |-> << UserMessage(<<"h", "i">>) >>,
                  tools |-> build_tools_for_deepseek(ToolCatalog)]
    /\ toolIdx = 1
    /\ tool_args = PyNone
    /\ tool_result = NoResult
    /\ outstanding = {}
    /\ result = NoResult
    /\ fault = NoFault
    /\ toolRounds = 1
    /\ modelRequests = 1
    /\ toolInvocations = 0
    /\ prompts = 1
    /\ lastLine = <<"h", "i">>
    /\ lastReport = "none"
    /\ mainResult = "running"

NextArgs ==
    \/ ToolDispatch
    \/ ToolReturn

SpecArgs == InitArgs /\ [][NextArgs]_vars

\* the structured value the turn carries, read from its dict form
CarriedValue == message.tool_calls[2].function.arguments

\* C11: argument normalization accepts the JSON-string form and the structured
\* form without raising and dispatches the same structured value for both;
\* a value that is already structured is passed on unchanged.
C11_ArgumentsFormIndependent ==
    /\ \A i \in 1..Len(message.tool_calls) :
         NormalizeArguments(message.tool_calls[i].function.arguments) = Ok(CarriedValue)
    /\ pc = "await_tool" => tool_args = CarriedValue
    /\ exc # "JSONDecodeError"

\* the JSON-string form of a two-item value has been dispatched
C11_Witness ==
    /\ pc = "await_tool"
    /\ message.tool_calls[toolIdx].function.arguments.type = "str"
    /\ tool_args.type = "dict"
    /\ Len(tool_args.items) = 2

\* the value a content stands for in JSON: an object with model_dump() stands
\* for the dict it dumps to
DumpedValue(content) ==
    IF content.type = "model" THEN PyDict(content.items) ELSE content

\* a tool-result turn has just been appended for the content in tool_result
ResultStored ==
    /\ pc \in {"pq_tool", "pq_request", "await_model"}
    /\ messages # <<>>
    /\ messages[Len(messages)].role = "tool"
    /\ tool_result # NoResult

\* C12: the content of a tool-result turn made from a structured content (a
\* mapping, a list of content items, an object with model_dump) is a string
\* that parses as JSON back to the original value; a string content is stored
\* unchanged.
C12_ResultRoundTrips ==
    ResultStored =>
        LET stored == messages[Len(messages)].content IN
        IF tool_result.type = "str"
        THEN stored = tool_result
        ELSE /\ stored.type = "str"
             /\ json_loads(stored.text) = Ok(DumpedValue(tool_result))

\* the round trip of the contents that are not lists
C12_MappingsRoundTrip ==
    (ResultStored /\ tool_result.type # "list") => C12_ResultRoundTrips

(***************************************************************************)
(* An MCPClient used before its connection is established: connector is    *)
(* None (as __init__ leaves it) or an MCPServerConnector that was           *)
(* constructed and not entered (session None, tools {}).                   *)
(***************************************************************************)
InitUnconnected ==
    /\ pc = "chat_input"
    /\ exc = "none"
    /\ deepseekClient = "ready"
    /\ connector \in {"none", "new"}
    /\ sse = "none"
    /\ session = "none"
    /\ setup = {"api_key"}
    /\ tools = {}
    /\ messages = <<>>
    /\ request = NoRequest
    /\ message = NoMessage
    /\ toolIdx = 0
    /\ tool_args = PyNone
    /\ tool_result = NoResult
    /\ outstanding = {}
    /\ result = NoResult
    /\ fault = NoFault
    /\ toolRounds = 0
    /\ modelRequests = 0
    /\ toolInvocations = 0
    /\ prompts = 0
    /\ lastLine = <<>>
    /\ lastReport = "none"
    /\ mainResult = "running"

\* chat_loop and process_query; no tool call is ever awaited, no connector
\* scope is left
NextUnconnected ==
    \/ ChatInput
    \/ ModelSend
    \/ ModelReceive
    \/ ToolDispatch
    \/ PrintResponse
    \/ ChatCatch
    \/ ChatPropagate

SpecUnconnected == InitUnconnected /\ [][NextUnconnected]_vars

\* the error call_tool raises for a session that is not initialized
NotConnectedError == "RuntimeError"

\* C13: while the connection is not established process_query fails with the
\* not-connected error before any model request: no request is issued with an
\* empty catalog, and the failure it raises is the not-connected error.
C13_NotConnectedFails ==
    session # "open" =>
        /\ modelRequests = 0
        /\ (pc = "chat_raised" /\ IsException(exc) /\ lastLine # <<>>)
               => exc = NotConnectedError

\* with a connector that is unset no model request is issued
C13_UnsetNeverRequests ==
    connector = "none" => modelRequests = 0

\* with a connector that was not entered the model is requested, with an
\* empty tool catalog
C13_NotEnteredRequested ==
    ~(connector = "new" /\ pc = "await_model" /\ request.tools = {})

\* the line is the word quit in some letter case between optional whitespace
IsQuitLine(l) ==
    \E i \in 1..Len(l) :
        /\ i + 3 <= Len(l)
        /\ l[i] \in {"q", "Q"}
        /\ l[i + 1] \in {"u", "U"}
        /\ l[i + 2] \in {"i", "I"}
        /\ l[i + 3] \in {"t", "T"}
        /\ \A j \in 1..Len(l) : (j < i \/ j > i + 3) => l[j] \in Whitespace

\* input() has returned a line to chat_loop in this step
LineRead == pc = "chat_input" /\ pc' # "chat_raised"

\* C14: a line that is "quit" in any letter case, surrounding whitespace
\* ignored, ends chat_loop with no call of process_query and no model request;
\* any other line is forwarded to process_query as the query.
C14_QuitEndsLoop ==
    [][LineRead =>
          IF IsQuitLine(lastLine')
          THEN /\ pc' = "aexit_session"
               /\ messages' = <<>>
               /\ modelRequests' = 0
               /\ outstanding' = {}
          ELSE /\ pc' = "pq_request"
               /\ messages' = << UserMessage(Strip(lastLine')) >>]_vars

\* chat_loop has ended on the line " QuIT "
C14_Witness ==
    /\ pc = "aexit_session"
    /\ exc = "none"
    /\ lastLine = <<" ", "Q", "u", "I", "T", " ">>
    /\ prompts = 2

RECURSIVE ToolTurns(_)
ToolTurns(msgs) ==
    IF msgs = <<>> THEN 0
    ELSE (IF Head(msgs).role = "tool" THEN 1 ELSE 0) + ToolTurns(Tail(msgs))

\* C15: model requests and tool rounds alternate.  The model is requested
\* once per round: first with the user turn alone, later only when every tool
\* call of every assistant turn in the state has its result turn; a query
\* that returns after k tool-calling responses has made k + 1 model requests.
C15_RequestsAlternate ==
    /\ pc \in {"await_model", "pq_returned"} => modelRequests = toolRounds + 1
    /\ pc \in {"pq_request", "pq_tool", "await_tool"} => modelRequests = toolRounds
    /\ pc \in {"pq_tool", "await_tool"} => ToolTurns(messages) < RequestedCalls(messages)
    /\ pc = "await_model" =>
          /\ request.messages = messages
          /\ (modelRequests = 1 => Roles(request.messages) = <<"user">>)
          /\ ToolTurns(request.messages) = RequestedCalls(request.messages)
          /\ \A p \in 1..Len(request.messages) :
                request.messages[p].role = "assistant"
                    => ResultsFollow(request.messages, p)

\* the model is requested a second time, after both calls of a two-call turn
C15_Witness ==
    /\ pc = "await_model"
    /\ modelRequests = 2
    /\ Len(message.tool_calls) = 2
    /\ Roles(request.messages) = <<"user", "assistant", "tool", "tool">>

\* the tool calls of the current turn before the one being served all have
\* their result turn at the end of the state, in order
EarlierResultsAppended ==
    LET base == Len(messages) - (toolIdx - 1) IN
    /\ base >= 1
    /\ messages[base].role = "assistant"
    /\ messages[base].tool_calls = message.tool_calls
    /\ \A i \in 1..(toolIdx - 1) :
         /\ messages[base + i].role = "tool"
         /\ messages[base + i].tool_call_id = message.tool_calls[i].id

\* C16: execution is single-flight.  At most one request (to the model or to
\* a tool) is outstanding; a tool call is dispatched only when the results of
\* the calls before it are appended; chat_loop reads the next line only when
\* process_query has returned or failed and nothing is outstanding.
C16_SingleFlight ==
    /\ [](/\ Cardinality(outstanding) <= 1
          /\ (pc = "await_model" <=> outstanding = {ModelCall})
          /\ (pc = "await_tool" =>
                 /\ outstanding = {message.tool_calls[toolIdx].id}
                 /\ EarlierResultsAppended)
          /\ (pc \notin {"await_model", "await_tool"} => outstanding = {}))
    /\ [][prompts' # prompts =>
             /\ pc = "chat_input"
             /\ outstanding = {}
             /\ messages = <<>>
             /\ toolIdx = 0]_vars

\* the second tool call of a turn is in flight, alone
C16_Witness ==
    /\ pc = "await_tool"
    /\ toolIdx = 2
    /\ outstanding = {CallId(1, 2)}
    /\ Roles(messages) = <<"user", "assistant", "tool">>

\* the positions at which process_query is running
QueryPcs == {"pq_request", "await_model", "pq_tool", "await_tool"}

\* the user turn of the query read last
QueryTurn == UserMessage(Strip(lastLine))

\* C17: within one query the message sequence is append-only: a step of
\* process_query leaves it unchanged or appends one turn at its end, and its
\* first turn is always the user turn holding the query text.
C17_AppendOnly ==
    /\ [](pc \in QueryPcs \cup {"pq_returned"} => (messages # <<>> /\ messages[1] = QueryTurn))
    /\ [][(pc \in QueryPcs) =>
             /\ Len(messages') \in {Len(messages), Len(messages) + 1}
             /\ SubSeq(messages', 1, Len(messages)) = messages]_vars

\* a query whose state has grown by an assistant turn and a tool turn
C17_Witness ==
    /\ pc = "pq_request"
    /\ Roles(messages) = <<"user", "assistant", "tool">>
    /\ messages[1] = UserMessage(<<"h", "i">>)

RECURSIVE TurnsOf(_, _)
TurnsOf(msgs, role) ==
    IF msgs = <<>> THEN 0
    ELSE (IF Head(msgs).role = role THEN 1 ELSE 0) + TurnsOf(Tail(msgs), role)

\* C18: queries are isolated.  The first model request of every query holds
\* that query's user turn and nothing else, and every later request of the
\* query holds that one user turn plus the assistant and tool turns of this
\* query's own rounds: no turn of an earlier query is sent to the model.
C18_QueriesIsolated ==
    pc = "await_model" =>
        /\ request.messages[1] = QueryTurn
        /\ (modelRequests = 1 => request.messages = << QueryTurn >>)
        /\ TurnsOf(request.messages, "user") = 1
        /\ TurnsOf(request.messages, "assistant") = toolRounds
        /\ TurnsOf(request.messages, "tool") = toolInvocations

\* the first model request of a second query
C18_Witness ==
    /\ pc = "await_model"
    /\ prompts = 2
    /\ modelRequests = 1
    /\ lastLine = <<"q", "u", "i", "t", "s">>

\* the positions inside the while loop of chat_loop
LoopPcs == QueryPcs \cup {"chat_input", "pq_returned", "chat_raised"}

\* C19: chat_loop is left only on the quit line or by an interruption.  An
\* ordinary exception raised in an iteration, the one of input() included, is
\* caught and followed by another prompt, so a run in which every read fails
\* stays in the loop.
C19_LoopExits ==
    /\ [][(pc \in LoopPcs /\ pc' \notin LoopPcs) =>
             /\ pc' = "aexit_session"
             /\ \/ pc = "chat_input" /\ IsQuitLine(lastLine') /\ exc' = "none"
                \/ pc = "chat_raised" /\ IsInterrupt(exc)]_vars
    /\ [][(pc = "chat_input" /\ exc' # "none") => pc' = "chat_raised"]_vars
    /\ [][(pc = "chat_raised" /\ IsException(exc)) =>
             (pc' = "chat_input" /\ lastReport' = exc /\ prompts' = prompts)]_vars

\* the prompt shown again after input() raised EOFError
C19_Witness ==
    /\ pc = "chat_input"
    /\ lastReport = "EOFError"
    /\ lastLine = <<>>
    /\ prompts = 1

====
